---- MODULE Spec2Model ----
(***************************************************************************)
(* State-machine model of the KNN regressor client of flucoma-core:        *)
(* DataSetClient (a labelled-vector store) and KNNRegressorClient (a       *)
(* k-d tree over a source dataset plus a target dataset, with fit /        *)
(* predict / predictPoint / clear).                                        *)
(***************************************************************************)
EXTENDS Integers, Sequences, FiniteSets, TLC

\* ------------------------------------------------------------------ bounds
\* longest buffer handed to a message (frames)
MaxDim == 2
\* sample values are 0..MaxVal
MaxVal == 1
\* host values written to the numNeighbours parameter are 0..MaxK
MaxK == 2
\* number of messages sent in one behaviour
MaxSteps == 4
\* number of messages sent in one behaviour of SpecFit
MaxFitSteps == 5
\* number of messages sent in one behaviour of SpecDataSet
MaxDataSteps == 4
\* number of messages sent in one behaviour of SpecLoad
MaxLoadSteps == 4
\* number of messages sent in one behaviour of SpecQuery
MaxQuerySteps == 2

\* identifiers of points
Ids == {"a", "b"}
\* identifiers of points sent to a dataset on its own
DataIds == {"a", "b", "c"}
\* names of the DataSetClient instances that exist
Names == {"X", "Y"}
\* a DataSetClientRef whose weak pointer no longer locks
NoClient == "none"
Refs == Names \cup {NoClient}

\* ------------------------------------------------------------------ double
\* A double is kept as an exact rational in lowest terms.
RECURSIVE GCD(_, _)
GCD(m, n) == IF n = 0 THEN m ELSE GCD(n, m % n)

Abs(n) == IF n < 0 THEN 0 - n ELSE n

Norm(num, den) ==
  LET g == GCD(Abs(num), den) IN [num |-> num \div g, den |-> den \div g]

R(n) == [num |-> n, den |-> 1]

RAdd(x, y) == Norm(x.num * y.den + y.num * x.den, x.den * y.den)

RSub(x, y) == Norm(x.num * y.den - y.num * x.den, x.den * y.den)

RMul(x, y) == Norm(x.num * y.num, x.den * y.den)

\* x / y for y > 0
RDiv(x, y) == Norm(x.num * y.den, x.den * y.num)

RLess(x, y) == x.num * y.den < y.num * x.den

Values == {R(v) : v \in 0..MaxVal}
Vectors == UNION {[1..n -> Values] : n \in 0..MaxDim}

\* BufferPtr arguments: a null pointer, a buffer that does not exist on the
\* host, or a buffer holding one channel of samples
Buffers ==
  {[kind |-> "null", samps |-> <<>>], [kind |-> "invalid", samps |-> <<>>]}
    \cup {[kind |-> "ok", samps |-> v] : v \in Vectors}

\* -------------------------------------------------------------- FluidDataSet
DataSet(d) == [dim |-> d, ids |-> <<>>, data |-> <<>>]

DSsize(ds) == Len(ds.ids)

DSids(ds) == {ds.ids[i] : i \in 1..Len(ds.ids)}

DSpos(ds, id) == CHOOSE i \in 1..Len(ds.ids) : ds.ids[i] = id

\* add: false (dataset unchanged) when the id is present, else appended
DSaddOk(ds, id) == id \notin DSids(ds)

DSadd(ds, id, point) ==
  IF id \in DSids(ds) THEN ds
  ELSE [ds EXCEPT !.ids = Append(@, id), !.data = Append(@, point)]

\* get: found flag; the row is copied into the caller's tensor when found
DSget(ds, id, point) == IF id \in DSids(ds) THEN ds.data[DSpos(ds, id)] ELSE point

DSupdateOk(ds, id) == id \in DSids(ds)

DSupdate(ds, id, point) ==
  IF id \in DSids(ds) THEN [ds EXCEPT !.data[DSpos(ds, id)] = point] ELSE ds

DSremoveOk(ds, id) == id \in DSids(ds)

DSremove(ds, id) ==
  IF id \notin DSids(ds) THEN ds
  ELSE LET p == DSpos(ds, id)
           keep == [i \in 1..(Len(ds.ids) - 1) |-> IF i < p THEN i ELSE i + 1]
       IN  [ds EXCEPT !.ids = [i \in 1..(Len(ds.ids) - 1) |-> ds.ids[keep[i]]],
                      !.data = [i \in 1..(Len(ds.ids) - 1) |-> ds.data[keep[i]]]]

\* first n samples of a buffer: buf.samps(0, n, 0)
samps(buf, n) == SubSeq(buf.samps, 1, n)

numFrames(buf) == Len(buf.samps)

\* dataSets: the DataSet each DataSetClient holds; mAlgorithm: the
\* KNNRegressorData of the regressor client; last: the answer outstanding;
\* lifecycle: what fit and clear have done to the model so far; steps: the
\* number of messages the host will still send
\* fitting: where a fit that runs beside KNNRegressorQuery::process stands,
\* with its local copies and the number of the fit that stored the tree and
\* the target the model holds; query: what process has written, and the
\* numbers of the fits whose tree and target it last predicted from
VARIABLES dataSets, mAlgorithm, last, lifecycle, steps, fitting, query

vars == <<dataSets, mAlgorithm, last, lifecycle, steps, fitting, query>>

\* ------------------------------------------------------------------- KDTree
\* KDTree{0}: an empty tree
KDTreeEmpty == [mDims |-> 0, mNPoints |-> 0, nodes |-> <<>>, mInitialized |-> FALSE]

\* KDTree{dataSet}: every point of the dataset copied into a node
KDTreeBuild(ds) ==
  [mDims |-> ds.dim, mNPoints |-> DSsize(ds),
   nodes |-> [i \in 1..DSsize(ds) |-> [id |-> ds.ids[i], data |-> ds.data[i]]],
   mInitialized |-> TRUE]

KDTreeClear(tree) == KDTreeEmpty

\* ------------------------------------------------------- DataSet by value
\* A DataSet object as held by a variable or a member: its own storage (ref =
\* NoClient) or the storage of a DataSetClient.
Deref(h) == IF h.ref = NoClient THEN h.val ELSE dataSets[h.ref]

OwnDataSet(ds) == [ref |-> NoClient, val |-> ds]

\* getDataSet handing out the client's own storage instead of a copy
getDataSetShared(c) == [ref |-> c, val |-> dataSets[c]]

\* const DataSet getDataSet() const { return mAlgorithm; }  -- a copy
getDataSet(c) == OwnDataSet(dataSets[c])

\* ------------------------------------------------------------ last message
\* The message most recently answered: its name, the status returned, the
\* DataSetClientRef arguments (a, b), the kind and frame count of the point
\* buffer handed to the model, the value of numNeighbours read, and whether
\* the model was initialized when the message arrived.
NoArg == "-"
NoValue == [kind |-> "none"]

Msg(op, status, a, b, buf, k) ==
  [op |-> op, status |-> status, a |-> a, b |-> b,
   bufKind |-> buf.kind, n |-> Len(buf.samps), k |-> k,
   was |-> mAlgorithm.tree.mInitialized]

NoBuf == [kind |-> "null", samps |-> <<>>]

\* no answer outstanding: the host is free to send the next message
Idle ==
  [op |-> "idle", status |-> "OK", a |-> NoArg, b |-> NoArg,
   bufKind |-> "null", n |-> 0, k |-> 0, was |-> FALSE]

\* KNNRegressorData as constructed: tree{0}, target{1}
NewData == [tree |-> KDTreeEmpty, target |-> OwnDataSet(DataSet(1))]

\* no fit under way; tree and target are those of the constructor (fit 0)
NotFitting ==
  [at |-> "idle", dataSet |-> OwnDataSet(DataSet(0)), target |-> OwnDataSet(DataSet(0)),
   fits |-> 0, treeOf |-> 0, targetOf |-> 0]

\* the prediction buffers a KNNRegressorQuery can be given
PredictionBuffers ==
  {[kind |-> "null", samps |-> <<>>], [kind |-> "ok", samps |-> <<R(0)>>],
   [kind |-> "ok", samps |-> <<R(0), R(0)>>]}

\* a KNNRegressorQuery that has not processed anything yet, with the values
\* of its parameters numNeighbours, weight, inputPointBuffer, predictionBuffer
NewQuery(out, k, weight, in) ==
  [output |-> 0, predictionBuffer |-> out, numNeighbours |-> k, weight |-> weight,
   inputPointBuffer |-> in, computed |-> FALSE, treeOf |-> 0, targetOf |-> 0]

StartQuery(n, out, k, weight, in) ==
  /\ dataSets = [c \in Names |-> DataSet(0)]
  /\ mAlgorithm = NewData
  /\ last = Idle
  /\ lifecycle = "constructed"
  /\ steps = n
  /\ fitting = NotFitting
  /\ query = NewQuery(out, k, weight, in)

Start(n) ==
  StartQuery(n, [kind |-> "ok", samps |-> <<R(0)>>], 1, FALSE, [kind |-> "null", samps |-> <<>>])

Init == Start(MaxSteps)

\* ------------------------------------------------------------ DataSetClient
addPointStatus(ds, id, buf) ==
  IF buf.kind = "null" THEN "NoBuffer"
  ELSE IF buf.kind = "invalid" THEN "InvalidBuffer"
  ELSE IF numFrames(buf) = 0 THEN "EmptyBuffer"
  ELSE IF DSsize(ds) # 0 /\ numFrames(buf) # ds.dim THEN "WrongPointSize"
  ELSE IF DSaddOk(ds, id) THEN "OK" ELSE "DuplicateLabel"

\* addPoint that stores the new vector under an identifier already present
addPointDataSetOverwrite(ds, id, buf) ==
  IF addPointStatus(ds, id, buf) \in {"NoBuffer", "InvalidBuffer", "EmptyBuffer", "WrongPointSize"}
  THEN ds
  ELSE LET dataset == IF DSsize(ds) = 0 /\ ds.dim # numFrames(buf)
                      THEN DataSet(numFrames(buf)) ELSE ds
       IN  IF DSaddOk(dataset, id) THEN DSadd(dataset, id, samps(buf, dataset.dim))
           ELSE DSupdate(dataset, id, samps(buf, dataset.dim))

addPointDataSet(ds, id, buf) ==
  IF addPointStatus(ds, id, buf) \in {"NoBuffer", "InvalidBuffer", "EmptyBuffer", "WrongPointSize"}
  THEN ds
  ELSE LET dataset == IF DSsize(ds) = 0 /\ ds.dim # numFrames(buf)
                      THEN DataSet(numFrames(buf)) ELSE ds
       IN  DSadd(dataset, id, samps(buf, dataset.dim))

addPoint(c, id, buf) ==
  /\ last = Idle
  /\ steps > 0
  /\ dataSets' = [dataSets EXCEPT ![c] = addPointDataSet(dataSets[c], id, buf)]
  /\ last' = Msg("addPoint", addPointStatus(dataSets[c], id, buf), c, NoArg, NoBuf, 0)
  /\ steps' = steps - 1
  /\ UNCHANGED <<fitting, query>>
  /\ UNCHANGED <<mAlgorithm, lifecycle>>

\* buf.resize(frames, 1, sampleRate): the first samples kept, zeros appended
resize(buf, frames) ==
  [kind |-> "ok",
   samps |-> [i \in 1..frames |-> IF i <= Len(buf.samps) THEN buf.samps[i] ELSE R(0)]]

\* resized: whether the host lets the buffer be resized
getPointStatus(ds, id, buf, resized) ==
  IF buf.kind = "null" THEN "NoBuffer"
  ELSE IF buf.kind = "invalid" THEN "InvalidBuffer"
  ELSE IF ~resized THEN "ResizeFailed"
  ELSE IF id \in DSids(ds) THEN "OK" ELSE "PointNotFound"

\* the caller's buffer when getPoint returns
getPointBuffer(ds, id, buf, resized) ==
  IF getPointStatus(ds, id, buf, resized) \in {"NoBuffer", "InvalidBuffer", "ResizeFailed"}
  THEN buf
  ELSE LET point == samps(resize(buf, ds.dim), ds.dim)
       IN  [resize(buf, ds.dim) EXCEPT !.samps = DSget(ds, id, point)]

getPoint(c, id, buf, resized) ==
  /\ last = Idle
  /\ steps > 0
  /\ last' = Msg("getPoint", getPointStatus(dataSets[c], id, buf, resized), c, NoArg,
                 getPointBuffer(dataSets[c], id, buf, resized), 0)
  /\ steps' = steps - 1
  /\ UNCHANGED <<fitting, query>>
  /\ UNCHANGED <<dataSets, mAlgorithm, lifecycle>>

updatePointStatus(ds, id, buf) ==
  IF buf.kind = "null" THEN "NoBuffer"
  ELSE IF buf.kind = "invalid" THEN "InvalidBuffer"
  ELSE IF numFrames(buf) < ds.dim THEN "WrongPointSize"
  ELSE IF DSupdateOk(ds, id) THEN "OK" ELSE "PointNotFound"

\* updatePoint that adds the point when the identifier is not in the dataset
updatePointDataSetUpsert(ds, id, buf) ==
  IF updatePointStatus(ds, id, buf) \in {"NoBuffer", "InvalidBuffer", "WrongPointSize"}
  THEN ds
  ELSE IF DSupdateOk(ds, id) THEN DSupdate(ds, id, samps(buf, ds.dim))
  ELSE DSadd(ds, id, samps(buf, ds.dim))

updatePointDataSet(ds, id, buf) ==
  IF updatePointStatus(ds, id, buf) \in {"NoBuffer", "InvalidBuffer", "WrongPointSize"}
  THEN ds
  ELSE DSupdate(ds, id, samps(buf, ds.dim))

updatePoint(c, id, buf) ==
  /\ last = Idle
  /\ steps > 0
  /\ dataSets' = [dataSets EXCEPT ![c] = updatePointDataSet(dataSets[c], id, buf)]
  /\ last' = Msg("updatePoint", updatePointStatus(dataSets[c], id, buf), c, NoArg, NoBuf, 0)
  /\ steps' = steps - 1
  /\ UNCHANGED <<fitting, query>>
  /\ UNCHANGED <<mAlgorithm, lifecycle>>

deletePoint(c, id) ==
  /\ last = Idle
  /\ steps > 0
  /\ dataSets' = [dataSets EXCEPT ![c] = DSremove(dataSets[c], id)]
  /\ last' = Msg("deletePoint", IF DSremoveOk(dataSets[c], id) THEN "OK" ELSE "PointNotFound",
                 c, NoArg, NoBuf, 0)
  /\ steps' = steps - 1
  /\ UNCHANGED <<fitting, query>>
  /\ UNCHANGED <<mAlgorithm, lifecycle>>

\* DataSetClient::clear: mAlgorithm = DataSet(0)
clearDataSet(c) ==
  /\ last = Idle
  /\ steps > 0
  /\ dataSets' = [dataSets EXCEPT ![c] = DataSet(0)]
  /\ last' = Msg("clearDataSet", "OK", c, NoArg, NoBuf, 0)
  /\ steps' = steps - 1
  /\ UNCHANGED <<fitting, query>>
  /\ UNCHANGED <<mAlgorithm, lifecycle>>

\* setDataSet that adds the points to the dataset the client already holds
setDataSetMerge(c, ds) ==
  LET new == Deref(ds)
      merged[i \in 0..DSsize(new)] ==
        IF i = 0 THEN dataSets[c] ELSE DSadd(merged[i - 1], new.ids[i], new.data[i])
  IN  [dataSets EXCEPT ![c] = merged[DSsize(new)]]

\* void setDataSet(DataSet ds) { mAlgorithm = ds; }
setDataSet(c, ds) == [dataSets EXCEPT ![c] = Deref(ds)]

\* ------------------------------------------------------------- KNNRegressor
\* squared Euclidean distance between two vectors of the same length
Dist2(p, q) ==
  LET sq[i \in 0..Len(p)] ==
        IF i = 0 THEN R(0)
        ELSE RAdd(sq[i - 1], RMul(RSub(p[i], q[i]), RSub(p[i], q[i])))
  IN  sq[Len(p)]

\* tree.kNearest(point, k): the k closest nodes, ascending by distance, nodes
\* at the same distance in the order of the source dataset
kNearest(tree, point, k) ==
  LET n == Len(tree.nodes)
      d == [j \in 1..n |-> Dist2(tree.nodes[j].data, point)]
      rank == [i \in 1..n |->
                 1 + Cardinality({j \in 1..n : RLess(d[j], d[i]) \/ (d[j] = d[i] /\ j < i)})]
  IN  [r \in 1..k |->
         LET i == CHOOSE j \in 1..n : rank[j] = r
         IN  [id |-> tree.nodes[i].id, dist2 |-> d[i]]]

\* targets.get(id, point) on a tensor of one zero, then point(0)
TargetOf(targets, id) == DSget(targets, id, <<R(0)>>)[1]

\* the constant added to a distance before it is inverted
Epsilon == 1

\* the weights of the k neighbours: 1/k each, or in weighted mode the inverse
\* of the distance (the squared distance plus Epsilon here, which stays
\* rational) over the sum of the k inverses
NeighbourWeights(nearest, k, weight) ==
  LET inv == [j \in 1..k |-> RDiv(R(1), RAdd(nearest[j].dist2, R(Epsilon)))]
      total[j \in 0..k] == IF j = 0 THEN R(0) ELSE RAdd(total[j - 1], inv[j])
      sum == total[k]
  IN  [i \in 1..k |-> IF weight THEN RDiv(inv[i], sum) ELSE RDiv(R(1), R(k))]

\* regressor.predict(tree, targets, point, k, weight)
regressorPredict(tree, targets, point, k, weight) ==
  LET nearest == kNearest(tree, point, k)
      weights == NeighbourWeights(nearest, k, weight)
      prediction[i \in 0..k] ==
        IF i = 0 THEN R(0)
        ELSE RAdd(prediction[i - 1], RMul(weights[i], TargetOf(targets, nearest[i].id)))
  IN  prediction[k]

\* ------------------------------------------------------- KNNRegressorData
size(data) == DSsize(Deref(data.target))

dims(data) == data.tree.mDims

initialized(data) == data.tree.mInitialized

\* clear that resets the target dataset and forgets tree.clear()
clearDataKeepTree(data) == [tree |-> data.tree, target |-> OwnDataSet(DataSet(0))]

\* clear that empties the tree and forgets to replace the target dataset
clearDataKeepTarget(data) == [tree |-> KDTreeClear(data.tree), target |-> data.target]

clearData(data) == [tree |-> KDTreeClear(data.tree), target |-> OwnDataSet(DataSet(0))]

\* ------------------------------------------------------ KNNRegressorClient
\* LongParam("numNeighbours", ..., 3, Min(1)): the value the parameter holds
\* after the host writes v
numNeighbours(v) == IF v < 1 THEN 1 ELSE v

\* the values numNeighbours can hold when the host writes 0..MaxK
NumNeighbours == {numNeighbours(v) : v \in 0..MaxK}

\* fit without the comparison of the two sizes
fitStatusNoSizeCheck(s, t) ==
  IF s = NoClient THEN "NoDataSet"
  ELSE IF DSsize(Deref(getDataSet(s))) = 0 THEN "EmptyDataSet"
  ELSE IF t = NoClient THEN "NoDataSet"
  ELSE IF DSsize(Deref(getDataSet(t))) = 0 THEN "EmptyDataSet"
  ELSE "OK"

\* fit that tests both references before it looks at either dataset
fitStatusRefsFirst(s, t) ==
  IF s = NoClient \/ t = NoClient THEN "NoDataSet"
  ELSE IF DSsize(Deref(getDataSet(s))) = 0 THEN "EmptyDataSet"
  ELSE IF DSsize(Deref(getDataSet(t))) = 0 THEN "EmptyDataSet"
  ELSE IF DSsize(Deref(getDataSet(s))) # DSsize(Deref(getDataSet(t))) THEN "SizesDontMatch"
  ELSE "OK"

fitStatus(s, t) ==
  IF s = NoClient THEN "NoDataSet"
  ELSE IF DSsize(Deref(getDataSet(s))) = 0 THEN "EmptyDataSet"
  ELSE IF t = NoClient THEN "NoDataSet"
  ELSE IF DSsize(Deref(getDataSet(t))) = 0 THEN "EmptyDataSet"
  ELSE IF DSsize(Deref(getDataSet(s))) # DSsize(Deref(getDataSet(t))) THEN "SizesDontMatch"
  ELSE "OK"

\* fit that builds the tree before it has compared the two sizes
fitDataTreeFirst(data, s, t) ==
  IF fitStatus(s, t) = "OK"
  THEN [tree |-> KDTreeBuild(Deref(getDataSet(s))), target |-> getDataSet(t)]
  ELSE IF fitStatus(s, t) = "SizesDontMatch"
  THEN [data EXCEPT !.tree = KDTreeBuild(Deref(getDataSet(s)))]
  ELSE data

\* fit that never assigns the new target dataset
fitDataKeepTarget(data, s, t) ==
  IF fitStatus(s, t) # "OK" THEN data
  ELSE [tree |-> KDTreeBuild(Deref(getDataSet(s))), target |-> data.target]

fitData(data, s, t) ==
  IF fitStatus(s, t) # "OK" THEN data
  ELSE [tree |-> KDTreeBuild(Deref(getDataSet(s))), target |-> getDataSet(t)]

fit(s, t) ==
  /\ last = Idle
  /\ steps > 0
  /\ mAlgorithm' = fitData(mAlgorithm, s, t)
  /\ last' = Msg("fit", fitStatus(s, t), s, t, NoBuf, 0)
  /\ lifecycle' = IF fitStatus(s, t) = "OK" THEN "fitted" ELSE lifecycle
  /\ steps' = steps - 1
  /\ UNCHANGED <<fitting, query>>
  /\ UNCHANGED dataSets

\* InBufferCheck(size).checkInputs(buffer) and its error()
InBufferCheck(n, buf) ==
  IF buf.kind = "null" THEN "NoBuffer"
  ELSE IF buf.kind = "invalid" THEN "InvalidBuffer"
  ELSE IF numFrames(buf) # n THEN "WrongPointSize"
  ELSE "OK"

\* predictPoint that compares k with the tree's size before it asks whether
\* anything was fitted
predictPointStatusSizeFirst(data, buf, k) ==
  IF k = 0 THEN "SmallK"
  ELSE IF data.tree.mNPoints < k THEN "NotEnoughData"
  ELSE IF data.tree.mNPoints = 0 THEN "NoDataFitted"
  ELSE InBufferCheck(data.tree.mDims, buf)

predictPointStatus(data, buf, k) ==
  IF k = 0 THEN "SmallK"
  ELSE IF data.tree.mNPoints = 0 THEN "NoDataFitted"
  ELSE IF data.tree.mNPoints < k THEN "NotEnoughData"
  ELSE InBufferCheck(data.tree.mDims, buf)

predictPointResult(data, buf, k, weight) ==
  IF predictPointStatus(data, buf, k) # "OK" THEN NoValue
  ELSE regressorPredict(data.tree, Deref(data.target), samps(buf, data.tree.mDims), k, weight)

predictPoint(buf, k, weight) ==
  /\ last = Idle
  /\ steps > 0
  /\ last' = Msg("predictPoint", predictPointStatus(mAlgorithm, buf, k),
                 NoArg, NoArg, buf, k)
  /\ steps' = steps - 1
  /\ UNCHANGED <<fitting, query>>
  /\ UNCHANGED <<dataSets, mAlgorithm, lifecycle>>

predictStatus(data, s, d, k) ==
  IF s = NoClient THEN "NoDataSet"
  ELSE IF DSsize(Deref(getDataSet(s))) = 0 THEN "EmptyDataSet"
  ELSE IF d = NoClient THEN "NoDataSet"
  ELSE IF Deref(getDataSet(s)).dim # data.tree.mDims THEN "WrongPointSize"
  ELSE IF k = 0 THEN "SmallK"
  ELSE IF data.tree.mNPoints = 0 THEN "NoDataFitted"
  ELSE IF data.tree.mNPoints < k THEN "NotEnoughData"
  ELSE "OK"

\* the result dataset: one prediction per source point, added in order
predictDataSet(data, dataSet, k, weight) ==
  LET result[i \in 0..DSsize(dataSet)] ==
        IF i = 0 THEN DataSet(1)
        ELSE DSadd(result[i - 1], dataSet.ids[i],
                   <<regressorPredict(data.tree, Deref(data.target), dataSet.data[i], k, weight)>>)
  IN  result[DSsize(dataSet)]

predict(s, d, k, weight) ==
  /\ last = Idle
  /\ steps > 0
  /\ dataSets' =
       IF predictStatus(mAlgorithm, s, d, k) # "OK" THEN dataSets
       ELSE setDataSet(d, OwnDataSet(predictDataSet(mAlgorithm, Deref(getDataSet(s)),
                                                    k, weight)))
  /\ last' = Msg("predict", predictStatus(mAlgorithm, s, d, k),
                 s, d, NoBuf, k)
  /\ steps' = steps - 1
  /\ UNCHANGED <<fitting, query>>
  /\ UNCHANGED <<mAlgorithm, lifecycle>>

\* DataClient::clear on the model: mAlgorithm.clear()
clear ==
  /\ last = Idle
  /\ steps > 0
  /\ mAlgorithm' = clearData(mAlgorithm)
  /\ last' = Msg("clear", "OK", NoArg, NoArg, NoBuf, 0)
  /\ lifecycle' = IF lifecycle \in {"fitted", "fitThenCleared"} THEN "fitThenCleared" ELSE "cleared"
  /\ steps' = steps - 1
  /\ UNCHANGED <<fitting, query>>
  /\ UNCHANGED dataSets

\* ------------------------------------------------------------ dump and load
\* the keys of a JSON object in the order the object iterates them
IdOrder == <<"a", "b", "c">>

\* a key that is absent from a record, and a value that is not an object
JSONMissing == [type |-> "missing"]
JSONNumber == [type |-> "number"]

\* to_json(FluidDataSet): the dimension and one member per identifier
to_jsonDataSet(ds) ==
  [type |-> "object", cols |-> ds.dim,
   data |-> [id \in DSids(ds) |-> ds.data[DSpos(ds, id)]]]

\* from_json(FluidDataSet): the members added in the order of their keys
from_jsonDataSet(j) ==
  LET ids == SelectSeq(IdOrder, LAMBDA x : x \in DOMAIN j.data)
  IN  [dim |-> j.cols, ids |-> ids, data |-> [i \in 1..Len(ids) |-> j.data[ids[i]]]]

\* to_json(KDTree): dimension, number of points and the nodes
to_jsonKDTree(tree) ==
  [type |-> "object", cols |-> tree.mDims, rows |-> tree.mNPoints, nodes |-> tree.nodes]

\* from_json(KDTree): the decoded tree is initialized
from_jsonKDTree(j) ==
  [mDims |-> j.cols, mNPoints |-> j.rows, nodes |-> j.nodes, mInitialized |-> TRUE]

to_json(data) ==
  [tree |-> to_jsonKDTree(data.tree), target |-> to_jsonDataSet(Deref(data.target))]

\* fluid::check_json(j, {"tree", "target"}, {OBJECT, OBJECT})
check_json(j) == j.tree.type = "object" /\ j.target.type = "object"

\* from_json that decodes the tree and leaves the target as constructed
from_jsonTreeOnly(j) ==
  [tree |-> from_jsonKDTree(j.tree), target |-> OwnDataSet(DataSet(1))]

from_json(j) ==
  [tree |-> from_jsonKDTree(j.tree), target |-> OwnDataSet(from_jsonDataSet(j.target))]

\* the records a host can send to load: the two members taken from a dump of
\* the model or encoded from a dataset, or absent, or not objects
Records ==
  LET malformed == {JSONMissing, JSONNumber}
      trees == {to_json(mAlgorithm).tree}
                 \cup {to_jsonKDTree(KDTreeBuild(dataSets[c])) : c \in Names}
      targets == {to_json(mAlgorithm).target}
                   \cup {to_jsonDataSet(dataSets[c]) : c \in Names}
  IN  {[tree |-> t, target |-> g] : t \in trees \cup malformed, g \in targets \cup malformed}

\* marks a load whose record is the dump of the model it is sent to
OwnDump == "dump"

\* DataClient::dump: refused when the model is not initialized
dump ==
  /\ last = Idle
  /\ steps > 0
  /\ last' = Msg("dump", IF initialized(mAlgorithm) THEN "OK" ELSE "NoDataFitted",
                 NoArg, NoArg, NoBuf, 0)
  /\ steps' = steps - 1
  /\ UNCHANGED <<fitting, query>>
  /\ UNCHANGED <<dataSets, mAlgorithm, lifecycle>>

\* DataClient::load: check_json, then mAlgorithm = j.get<KNNRegressorData>()
load(j) ==
  /\ last = Idle
  /\ steps > 0
  /\ mAlgorithm' = IF check_json(j) THEN from_json(j) ELSE mAlgorithm
  /\ last' = Msg("load", IF check_json(j) THEN "OK" ELSE "InvalidJSON",
                 IF j = to_json(mAlgorithm) THEN OwnDump ELSE NoArg, NoArg, NoBuf, 0)
  /\ lifecycle' = IF check_json(j) THEN "loaded" ELSE lifecycle
  /\ steps' = steps - 1
  /\ UNCHANGED <<fitting, query>>
  /\ UNCHANGED dataSets

\* ------------------------------------- fit beside KNNRegressorQuery::process
\* fit up to its last check: the local copies are taken; an error is answered
\* at once
fitBegin(s, t) ==
  /\ last = Idle
  /\ steps > 0
  /\ fitting.at = "idle"
  /\ IF fitStatus(s, t) # "OK"
     THEN /\ last' = Msg("fit", fitStatus(s, t), s, t, NoBuf, 0)
          /\ UNCHANGED fitting
     ELSE /\ last' = Msg("fit", "Running", s, t, NoBuf, 0)
          /\ fitting' = [fitting EXCEPT !.at = "tree", !.dataSet = getDataSet(s),
                                        !.target = getDataSet(t), !.fits = @ + 1]
  /\ steps' = steps - 1
  /\ UNCHANGED <<dataSets, mAlgorithm, lifecycle, query>>

\* mAlgorithm.tree = algorithm::KDTree{dataSet};
fitAssignTree ==
  /\ fitting.at = "tree"
  /\ mAlgorithm' = [mAlgorithm EXCEPT !.tree = KDTreeBuild(Deref(fitting.dataSet))]
  /\ fitting' = [fitting EXCEPT !.at = "target", !.treeOf = fitting.fits]
  /\ UNCHANGED <<dataSets, last, lifecycle, steps, query>>

\* mAlgorithm.target = target; mAlgorithm = {tree, target}; return {};
fitAssignTarget ==
  /\ fitting.at = "target"
  /\ mAlgorithm' = [tree |-> mAlgorithm.tree, target |-> fitting.target]
  /\ fitting' = [fitting EXCEPT !.at = "idle", !.targetOf = fitting.fits]
  /\ last' = [last EXCEPT !.status = "OK"]
  /\ lifecycle' = "fitted"
  /\ UNCHANGED <<dataSets, steps, query>>

\* InOutBuffersCheck(size).checkInputs(in, out)
InOutBuffersCheck(n, in, out) == InBufferCheck(n, in) = "OK" /\ out.kind # "null"

\* process without the test of the prediction buffer's size
processPredictsAnyFrames(data, trigger, alive, k, in, out) ==
  /\ trigger > 0
  /\ alive
  /\ ~(k = 0 \/ data.tree.mNPoints = 0 \/ data.tree.mNPoints < k)
  /\ InOutBuffersCheck(data.tree.mDims, in, out)
  /\ numFrames(out) >= 1

\* whether process gets as far as regressor.predict
processPredicts(data, trigger, alive, k, in, out) ==
  /\ trigger > 0
  /\ alive
  /\ ~(k = 0 \/ data.tree.mNPoints = 0 \/ data.tree.mNPoints < k)
  /\ InOutBuffersCheck(data.tree.mDims, in, out)
  /\ numFrames(out) = 1

\* KNNRegressorQuery::process on the model it shares with the client, at any
\* moment, between the statements of a fit included. trigger: input[0](0);
\* alive: the model reference locks
process(trigger, alive) ==
  /\ query' =
       IF processPredicts(mAlgorithm, trigger, alive, query.numNeighbours,
                          query.inputPointBuffer, query.predictionBuffer)
       THEN [query EXCEPT
               !.output = trigger,
               !.predictionBuffer.samps[1] =
                 regressorPredict(mAlgorithm.tree, Deref(mAlgorithm.target),
                                  samps(query.inputPointBuffer, mAlgorithm.tree.mDims),
                                  query.numNeighbours, query.weight),
               !.computed = TRUE, !.treeOf = fitting.treeOf, !.targetOf = fitting.targetOf]
       ELSE [query EXCEPT !.output = trigger]
  /\ UNCHANGED <<dataSets, mAlgorithm, last, lifecycle, steps, fitting>>

\* the host takes the answer of the message it sent
return ==
  /\ last # Idle
  /\ fitting.at = "idle"
  /\ last' = Idle
  /\ UNCHANGED <<dataSets, mAlgorithm, lifecycle, steps, fitting, query>>

Next ==
  \/ \E c \in Names, id \in Ids, buf \in Buffers : addPoint(c, id, buf)
  \/ \E c \in Names, id \in Ids, buf \in Buffers : updatePoint(c, id, buf)
  \/ \E c \in Names, id \in Ids : deletePoint(c, id)
  \/ \E c \in Names : clearDataSet(c)
  \/ \E s \in Refs, t \in Refs : fit(s, t)
  \/ \E buf \in Buffers, k \in NumNeighbours, weight \in BOOLEAN : predictPoint(buf, k, weight)
  \/ \E s \in Refs, d \in Refs, k \in NumNeighbours, weight \in BOOLEAN : predict(s, d, k, weight)
  \/ clear
  \/ return

Spec == Init /\ [][Next]_vars

\* Datasets are filled and the model is fitted, nothing else: the same
\* program under a host that sends only addPoint and fit, for more messages.
InitFit == Start(MaxFitSteps)

NextFit ==
  \/ \E c \in Names, id \in Ids, buf \in Buffers : addPoint(c, id, buf)
  \/ \E s \in Refs, t \in Refs : fit(s, t)
  \/ return

SpecFit == InitFit /\ [][NextFit]_vars

\* One dataset on its own: the same program under a host that sends the
\* messages of DataSetClient X only, with one more identifier.
InitDataSet == Start(MaxDataSteps)

NextDataSet ==
  \/ \E id \in DataIds, buf \in Buffers : addPoint("X", id, buf)
  \/ \E id \in DataIds, buf \in Buffers, resized \in BOOLEAN : getPoint("X", id, buf, resized)
  \/ \E id \in DataIds, buf \in Buffers : updatePoint("X", id, buf)
  \/ \E id \in DataIds : deletePoint("X", id)
  \/ clearDataSet("X")
  \/ return

SpecDataSet == InitDataSet /\ [][NextDataSet]_vars

\* Persistence: the same program under a host that fills datasets, fits,
\* dumps and loads.
InitLoad == Start(MaxLoadSteps)

NextLoad ==
  \/ \E c \in Names, id \in Ids, buf \in Buffers : addPoint(c, id, buf)
  \/ \E s \in Refs, t \in Refs : fit(s, t)
  \/ dump
  \/ \E j \in Records : load(j)
  \/ return

SpecLoad == InitLoad /\ [][NextLoad]_vars

\* A KNNRegressorQuery processes on the audio thread while the host fills
\* datasets and fits the model it refers to.
InitQuery ==
  \E out \in PredictionBuffers, k \in NumNeighbours, weight \in BOOLEAN, in \in Buffers :
    StartQuery(MaxQuerySteps, out, k, weight, in)

NextQuery ==
  \/ \E c \in Names, id \in Ids, buf \in Buffers : addPoint(c, id, buf)
  \/ \E s \in Refs, t \in Refs : fitBegin(s, t)
  \/ fitAssignTree
  \/ fitAssignTarget
  \/ \E trigger \in {0, 1}, alive \in BOOLEAN : process(trigger, alive)
  \/ return

SpecQuery == InitQuery /\ [][NextQuery]_vars

\* ------------------------------------------------------------------ claims
Uninitialized == ~initialized(mAlgorithm)

Fitted == initialized(mAlgorithm)

\* C1: predictPoint fails with NoDataFitted whenever no fit has succeeded
\* since the model was constructed or last cleared, whatever numNeighbours
\* holds; in particular after fit followed by clear.
C1_NoDataFittedUnlessFitted ==
  (last.op = "predictPoint" /\ lifecycle # "fitted") => last.status = "NoDataFitted"

\* predictPoint has answered on a model that was fitted and then cleared
C1_Witness ==
  last.op = "predictPoint" /\ lifecycle = "fitThenCleared" /\ last.status = "NoDataFitted"

\* C2 as stated: whenever both datasets exist and their sizes differ, fit
\* fails with SizesDontMatch.
C2_AlwaysSizesDontMatch ==
  (/\ last.op = "fit" /\ last.a \in Names /\ last.b \in Names
   /\ DSsize(dataSets[last.a]) # DSsize(dataSets[last.b]))
    => last.status = "SizesDontMatch"

\* C2 as amended: when both datasets exist and their sizes differ, fit fails
\* with EmptyDataSet if one of them is empty and with SizesDontMatch
\* otherwise, and in both cases leaves the model's tree and target as they were.
C2_SizeMismatchRejected ==
  [][(/\ last'.op = "fit" /\ last'.a \in Names /\ last'.b \in Names
      /\ DSsize(dataSets[last'.a]) # DSsize(dataSets[last'.b]))
       => /\ last'.status =
               IF DSsize(dataSets[last'.a]) = 0 \/ DSsize(dataSets[last'.b]) = 0
               THEN "EmptyDataSet" ELSE "SizesDontMatch"
          /\ mAlgorithm' = mAlgorithm]_vars

\* fit has answered SizesDontMatch on a model that was Fitted
C2_Witness ==
  last.op = "fit" /\ last.status = "SizesDontMatch" /\ last.was /\ Fitted

TreeIds == {mAlgorithm.tree.nodes[i].id : i \in 1..Len(mAlgorithm.tree.nodes)}

\* C3: after every successful fit the identifiers in the index are the
\* identifiers in the stored target dataset (a fit of datasets with different
\* identifier sets is rejected).
C3_IdentifierSetsMatch ==
  (last.op = "fit" /\ last.status = "OK") => TreeIds = DSids(Deref(mAlgorithm.target))

\* C4: between calls the model is Uninitialized, with an empty index and
\* size() = 0, or Fitted, with index.size() = target.size() > 0.
C4_NoHalfFittedState ==
  \/ /\ Uninitialized
     /\ mAlgorithm.tree.mNPoints = 0
     /\ Len(mAlgorithm.tree.nodes) = 0
     /\ size(mAlgorithm) = 0
  \/ /\ Fitted
     /\ mAlgorithm.tree.mNPoints = size(mAlgorithm)
     /\ Len(mAlgorithm.tree.nodes) = size(mAlgorithm)
     /\ size(mAlgorithm) > 0

\* a fit has failed on a Fitted model, which is still Fitted
C4_Witness ==
  last.op = "fit" /\ last.status # "OK" /\ last.was /\ Fitted /\ size(mAlgorithm) > 0

BufferErrors == {"NoBuffer", "InvalidBuffer", "WrongPointSize"}

\* C5: predictPoint answers SmallK when k < 1, else NoDataFitted when the
\* model is Uninitialized, else NotEnoughData when k > index.size(), else a
\* buffer error when the buffer does not supply index.dimension() values, and
\* returns a scalar only when none of these holds.
C5_PredictPointChecks ==
  last.op = "predictPoint" =>
    IF last.k < 1 THEN last.status = "SmallK"
    ELSE IF Uninitialized THEN last.status = "NoDataFitted"
    ELSE IF last.k > mAlgorithm.tree.mNPoints THEN last.status = "NotEnoughData"
    ELSE IF last.bufKind # "ok" \/ last.n # dims(mAlgorithm) THEN last.status \in BufferErrors
    ELSE last.status = "OK"

\* predictPoint has answered NotEnoughData on a Fitted model handed a buffer
\* that would also fail the buffer check
C5_Witness ==
  /\ last.op = "predictPoint" /\ last.status = "NotEnoughData" /\ Fitted
  /\ last.n # dims(mAlgorithm)

\* C6: batch predict with an existing non-empty source and an existing
\* destination fails with NoDataFitted whenever the model is Uninitialized,
\* with SmallK when k < 1, with WrongPointSize when the source's dimension
\* differs from the index's of a Fitted model, and with NotEnoughData when
\* k > index.size().
C6_PredictChecks ==
  (/\ last.op = "predict" /\ last.a \in Names /\ last.b \in Names
   /\ DSsize(dataSets[last.a]) > 0)
    => /\ last.k < 1 => last.status = "SmallK"
       /\ Uninitialized => last.status = "NoDataFitted"
       /\ (Fitted /\ dataSets[last.a].dim # dims(mAlgorithm)) => last.status = "WrongPointSize"
       /\ (/\ Fitted /\ dataSets[last.a].dim = dims(mAlgorithm)
           /\ last.k > mAlgorithm.tree.mNPoints) => last.status = "NotEnoughData"

\* C7: when predict fails no dataset changes; when it succeeds the destination
\* is replaced by a dataset of dimension 1 holding one prediction per source
\* point under the source's identifiers in the source's order, and no other
\* dataset changes.
C7_PredictAllOrNothing ==
  [][last'.op = "predict" =>
       IF last'.status # "OK" THEN dataSets' = dataSets
       ELSE /\ \A c \in Names \ {last'.b} : dataSets'[c] = dataSets[c]
            /\ dataSets'[last'.b].dim = 1
            /\ dataSets'[last'.b].ids = dataSets[last'.a].ids
            /\ Len(dataSets'[last'.b].data) = Len(dataSets[last'.a].ids)
            /\ \E weight \in BOOLEAN : \A i \in 1..Len(dataSets[last'.a].ids) :
                 dataSets'[last'.b].data[i] =
                   <<regressorPredict(mAlgorithm.tree, Deref(mAlgorithm.target),
                                      dataSets[last'.a].data[i], last'.k, weight)>>]_vars

\* predict has written two predictions into a destination other than its source
C7_Witness ==
  /\ last.op = "predict" /\ last.status = "OK" /\ last.a # last.b
  /\ DSsize(dataSets[last.b]) = 2

\* what a caller can observe of the model: size(), cols(), the status of
\* predictPoint for every buffer and numNeighbours, and the index and the
\* targets that regressorPredict reads to compute every prediction
Observed ==
  [size |-> size(mAlgorithm), cols |-> dims(mAlgorithm),
   status |-> [q \in Buffers \X NumNeighbours |->
                 predictPointStatus(mAlgorithm, q[1], q[2])],
   index |-> mAlgorithm.tree, targets |-> Deref(mAlgorithm.target)]

DataSetMessages == {"addPoint", "updatePoint", "deletePoint", "clearDataSet"}

\* C8: addPoint, updatePoint, deletePoint and clear on a DataSetClient, the
\* source and target of the last fit included, leave size(), cols() and every
\* predictPoint answer of the model as they were.
C8_FitCopies ==
  [][last'.op \in DataSetMessages => Observed' = Observed]_vars

\* a dataset message has succeeded after a fit, and no DataSetClient holds
\* the points of the index or the targets of the model any more
C8_Witness ==
  /\ last.op \in DataSetMessages /\ last.status = "OK" /\ Fitted
  /\ \A c \in Names :
       /\ dataSets[c] # Deref(mAlgorithm.target)
       /\ KDTreeBuild(dataSets[c]).nodes # mAlgorithm.tree.nodes

\* C9: after a successful fit the index holds exactly the points of the new
\* source, in its order, and the stored targets are exactly the new target
\* dataset, whatever the model held before.
C9_FitReplaces ==
  (last.op = "fit" /\ last.status = "OK") =>
    /\ mAlgorithm.tree.mInitialized
    /\ mAlgorithm.tree.mDims = dataSets[last.a].dim
    /\ mAlgorithm.tree.mNPoints = Len(dataSets[last.a].ids)
    /\ Len(mAlgorithm.tree.nodes) = Len(dataSets[last.a].ids)
    /\ \A i \in 1..Len(dataSets[last.a].ids) :
         /\ mAlgorithm.tree.nodes[i].id = dataSets[last.a].ids[i]
         /\ mAlgorithm.tree.nodes[i].data = dataSets[last.a].data[i]
    /\ Deref(mAlgorithm.target) = dataSets[last.b]

\* a fit has succeeded on a model that was already Fitted
C9_Witness == last.op = "fit" /\ last.status = "OK" /\ last.was

\* C10: clear succeeds from any state and leaves the model Uninitialized with
\* size() = 0 and an empty target dataset, and a fit with valid datasets sent
\* to a cleared model succeeds and yields what it yields on a new model.
C10_ClearResets ==
  [][/\ last'.op = "clear" =>
          /\ last'.status = "OK"
          /\ Uninitialized'
          /\ (size(mAlgorithm) = 0)'
          /\ (DSsize(Deref(mAlgorithm.target)) = 0)'
          /\ (mAlgorithm.tree.mNPoints = 0)'
     /\ (/\ lifecycle \in {"cleared", "fitThenCleared"}
         /\ last'.op = "fit" /\ last'.a \in Names /\ last'.b \in Names
         /\ DSsize(dataSets[last'.a]) > 0
         /\ DSsize(dataSets[last'.a]) = DSsize(dataSets[last'.b]))
          => /\ last'.status = "OK"
             /\ mAlgorithm' = fitData(NewData, last'.a, last'.b)]_vars

\* clear has answered on a model that was Fitted
C10_Witness == last.op = "clear" /\ last.status = "OK" /\ last.was /\ Uninitialized

\* C11: predictPoint and predict, successful or failing, leave the model's
\* index, target dataset, size() and lifecycle state as they were.
C11_PredictReadOnly ==
  [][last'.op \in {"predictPoint", "predict"} =>
       /\ mAlgorithm'.tree = mAlgorithm.tree
       /\ Deref(mAlgorithm.target)' = Deref(mAlgorithm.target)
       /\ size(mAlgorithm)' = size(mAlgorithm)
       /\ Fitted' = Fitted
       /\ lifecycle' = lifecycle]_vars

\* predict has succeeded and has written, into a destination that held the
\* identifiers of the model's targets, a dataset other than those targets
C11_Witness ==
  /\ last.op = "predict" /\ last.status = "OK" /\ Fitted
  /\ DSids(dataSets[last.b]) = DSids(Deref(mAlgorithm.target))
  /\ dataSets[last.b] # Deref(mAlgorithm.target)

UniqueIds(ds) == \A i, j \in 1..Len(ds.ids) : ds.ids[i] = ds.ids[j] => i = j

AddPointBufferErrors == {"NoBuffer", "InvalidBuffer", "EmptyBuffer", "WrongPointSize"}

\* C12 as stated: addPoint with an identifier already in the dataset fails
\* with DuplicateLabel and leaves the dataset unchanged, and every identifier
\* occurs at most once in a dataset.
C12_DuplicateAlwaysReported ==
  [][/\ \A c \in Names, id \in DataIds, buf \in Buffers :
          (addPoint(c, id, buf) /\ id \in DSids(dataSets[c]))
            => last'.status = "DuplicateLabel" /\ dataSets' = dataSets
     /\ \A c \in Names : UniqueIds(dataSets'[c])]_vars

\* C12 as amended: addPoint with an identifier already in the dataset fails
\* and leaves the dataset unchanged, with DuplicateLabel when the buffer
\* exists and holds exactly cols() frames and with the buffer's error
\* otherwise, and every identifier occurs at most once in a dataset.
C12_DuplicateRejected ==
  [][/\ \A c \in Names, id \in DataIds, buf \in Buffers :
          (addPoint(c, id, buf) /\ id \in DSids(dataSets[c]))
            => /\ dataSets' = dataSets
               /\ IF buf.kind = "ok" /\ numFrames(buf) = dataSets[c].dim
                  THEN last'.status = "DuplicateLabel"
                  ELSE last'.status \in AddPointBufferErrors
     /\ \A c \in Names : UniqueIds(dataSets'[c])]_vars

\* addPoint has answered DuplicateLabel on a dataset of two points
C12_Witness ==
  /\ last.op = "addPoint" /\ last.status = "DuplicateLabel"
  /\ DSsize(dataSets[last.a]) = 2

\* C13: once a dataset has a dimension, addPoint, updatePoint and deletePoint
\* never change it, also after every point was deleted, and an addPoint with
\* a buffer of another length fails with WrongPointSize and changes nothing.
C13_DimensionFixed ==
  [][\A c \in Names :
       dataSets[c].dim # 0 =>
         /\ last'.op \in {"addPoint", "updatePoint", "deletePoint"}
              => dataSets'[c].dim = dataSets[c].dim
         /\ \A id \in DataIds, buf \in Buffers :
              (/\ addPoint(c, id, buf) /\ buf.kind = "ok"
               /\ numFrames(buf) \notin {0, dataSets[c].dim})
                => last'.status = "WrongPointSize" /\ dataSets' = dataSets]_vars

\* C14: updatePoint on a dataset that holds points, with a buffer whose
\* length differs from the dimension, shorter or longer, fails with
\* WrongPointSize and changes nothing.
C14_UpdateWrongSize ==
  [][\A c \in Names, id \in DataIds, buf \in Buffers :
       (/\ updatePoint(c, id, buf) /\ buf.kind = "ok"
        /\ DSsize(dataSets[c]) > 0
        /\ numFrames(buf) # dataSets[c].dim)
         => last'.status = "WrongPointSize" /\ dataSets' = dataSets]_vars

\* a successful deletePoint: the identifier is gone, the others keep their
\* order and their vectors
Removed(c, id) ==
  /\ last'.status = "OK"
  /\ DSsize(dataSets'[c]) = DSsize(dataSets[c]) - 1
  /\ dataSets'[c].ids = SelectSeq(dataSets[c].ids, LAMBDA x : x # id)
  /\ dataSets'[c].dim = dataSets[c].dim
  /\ \A x \in DSids(dataSets'[c]) :
       dataSets'[c].data[DSpos(dataSets'[c], x)] = dataSets[c].data[DSpos(dataSets[c], x)]

\* C15 as stated: updatePoint and deletePoint with an identifier not in the
\* dataset fail with PointNotFound and change nothing; a successful
\* deletePoint removes that identifier only.
C15_AbsentAlwaysPointNotFound ==
  [][/\ \A c \in Names, id \in DataIds, buf \in Buffers :
          (updatePoint(c, id, buf) /\ id \notin DSids(dataSets[c]))
            => last'.status = "PointNotFound" /\ dataSets' = dataSets
     /\ \A c \in Names, id \in DataIds :
          deletePoint(c, id) =>
            IF id \in DSids(dataSets[c]) THEN Removed(c, id)
            ELSE last'.status = "PointNotFound" /\ dataSets' = dataSets]_vars

\* C15 as amended: updatePoint with an identifier not in the dataset changes
\* nothing and fails, with PointNotFound when the buffer exists and holds at
\* least cols() frames and with the buffer's error otherwise; deletePoint
\* with such an identifier fails with PointNotFound and changes nothing; a
\* successful deletePoint removes that identifier only.
C15_AbsentRejected ==
  [][/\ \A c \in Names, id \in DataIds, buf \in Buffers :
          (updatePoint(c, id, buf) /\ id \notin DSids(dataSets[c]))
            => /\ dataSets' = dataSets
               /\ IF buf.kind = "ok" /\ numFrames(buf) >= dataSets[c].dim
                  THEN last'.status = "PointNotFound"
                  ELSE last'.status \in BufferErrors
     /\ \A c \in Names, id \in DataIds :
          deletePoint(c, id) =>
            IF id \in DSids(dataSets[c]) THEN Removed(c, id)
            ELSE last'.status = "PointNotFound" /\ dataSets' = dataSets]_vars

\* deletePoint has removed one of three points
C15_Witness ==
  /\ last.op = "deletePoint" /\ last.status = "OK"
  /\ DSsize(dataSets[last.a]) = 2

\* C16: getPoint never changes the dataset, and when it answers
\* PointNotFound the caller's buffer is as it was.
C16_GetPointNoMutation ==
  [][\A c \in Names, id \in DataIds, buf \in Buffers, resized \in BOOLEAN :
       getPoint(c, id, buf, resized) =>
         /\ dataSets' = dataSets
         /\ last'.status = "PointNotFound"
              => getPointBuffer(dataSets[c], id, buf, resized) = buf]_vars

\* C17: load rejects a record whose "tree" or "target" is missing or not an
\* object, and a record whose index size differs from its target size, and
\* a rejected load leaves the model as it was.
C17_LoadValidates ==
  [][\A j \in Records :
       (/\ load(j)
        /\ \/ ~check_json(j)
           \/ j.tree.rows # Cardinality(DOMAIN j.target.data))
         => last'.status # "OK" /\ mAlgorithm' = mAlgorithm]_vars

\* the answer of predictPoint to every buffer, numNeighbours and weight
Answers(data) ==
  [q \in Buffers \X NumNeighbours \X BOOLEAN |->
     <<predictPointStatus(data, q[1], q[2]), predictPointResult(data, q[1], q[2], q[3])>>]

Mean(ds) ==
  LET sum[i \in 0..DSsize(ds)] == IF i = 0 THEN R(0) ELSE RAdd(sum[i - 1], ds.data[i][1])
  IN  RDiv(sum[DSsize(ds)], R(DSsize(ds)))

\* C19: for a Fitted model with n points the unweighted prediction with
\* k = n is the arithmetic mean of the n target values, for every query point.
C19_MeanOfAllTargets ==
  Fitted =>
    \A point \in {v \in Vectors : Len(v) = dims(mAlgorithm)} :
      regressorPredict(mAlgorithm.tree, Deref(mAlgorithm.target), point,
                       mAlgorithm.tree.mNPoints, FALSE)
        = Mean(Deref(mAlgorithm.target))

\* C20: a prediction of KNNRegressorQuery::process is never computed from
\* the index stored by one fit and the targets stored by another fit or by
\* the constructor.
C20_AtomicReplace == query.computed => query.treeOf = query.targetOf

\* C21: fit answers NoDataSet if the source reference is dead, else
\* EmptyDataSet if the source is empty, else NoDataSet if the target
\* reference is dead, else EmptyDataSet if the target is empty, else
\* SizesDontMatch if the sizes differ, and changes nothing in any of these
\* cases; otherwise it succeeds.
C21_FitErrorOrder ==
  [][last'.op = "fit" =>
       /\ last'.status =
            IF last'.a = NoClient THEN "NoDataSet"
            ELSE IF DSsize(dataSets[last'.a]) = 0 THEN "EmptyDataSet"
            ELSE IF last'.b = NoClient THEN "NoDataSet"
            ELSE IF DSsize(dataSets[last'.b]) = 0 THEN "EmptyDataSet"
            ELSE IF DSsize(dataSets[last'.a]) # DSsize(dataSets[last'.b])
            THEN "SizesDontMatch"
            ELSE "OK"
       /\ last'.status # "OK" =>
            /\ mAlgorithm' = mAlgorithm
            /\ dataSets' = dataSets
            /\ lifecycle' = lifecycle]_vars

\* fit has answered EmptyDataSet for an empty source and a dead target
\* reference, on a model that was Fitted and still is
C21_Witness ==
  /\ last.op = "fit" /\ last.status = "EmptyDataSet"
  /\ last.a \in Names /\ last.b = NoClient
  /\ last.was /\ Fitted

\* C22: process always copies input[0] to output[0] and never changes the
\* model; it writes the prediction into the prediction buffer when the
\* trigger is > 0, the model reference is alive, 1 <= k <= index.size() with
\* a non-empty index, the buffer check for index.dimension() passes and the
\* prediction buffer holds exactly one sample, and in every other case it
\* leaves the prediction buffer as it was.
C22_ProcessWritesOnlyWhenValid ==
  [][\A trigger \in {0, 1}, alive \in BOOLEAN :
       process(trigger, alive) =>
         /\ query'.output = trigger
         /\ mAlgorithm' = mAlgorithm
         /\ IF /\ trigger > 0
               /\ alive
               /\ mAlgorithm.tree.mNPoints > 0
               /\ 1 <= query.numNeighbours
               /\ query.numNeighbours <= mAlgorithm.tree.mNPoints
               /\ InOutBuffersCheck(dims(mAlgorithm), query.inputPointBuffer,
                                    query.predictionBuffer)
               /\ numFrames(query.predictionBuffer) = 1
            THEN query'.predictionBuffer.samps =
                   <<regressorPredict(mAlgorithm.tree, Deref(mAlgorithm.target),
                                      samps(query.inputPointBuffer, dims(mAlgorithm)),
                                      query.numNeighbours, query.weight)>>
            ELSE query'.predictionBuffer = query.predictionBuffer]_vars

\* process has written a prediction other than the sample the prediction
\* buffer held
C22_Witness ==
  /\ query.computed /\ query.output = 1
  /\ query.predictionBuffer.samps = <<R(1)>>
  /\ Fitted /\ fitting.at = "idle"
====
